---- MODULE Spec2Model ----
(***************************************************************************)
(* Model of the environment-inspector action (src/src/index.ts, the        *)
(* canonical pipeline of lines 1-201).                                     *)
(*                                                                         *)
(* A string is a sequence of one-character strings.  The output sink is a  *)
(* sequence of events: startGroup(title), info(line) and endGroup().       *)
(***************************************************************************)
EXTENDS Integers, Sequences, FiniteSets

VARIABLES
    pc,                  \* position of the program
    env,                 \* process.env as read by the collector: key -> value
    out,                 \* events written to the output sink, in order
    errOut,              \* what console.error received, in order
    exitCode,            \* exit status of the process, -1 while it runs
    error,               \* the error in flight / caught by run(), "none" if none
    singleVars,          \* printAllEnvironmentVariables: singleVars
    groupedVars,         \* printAllEnvironmentVariables: groupedVars (insertion order)
    multipleVarPrefixes, \* printAllEnvironmentVariables: multipleVarPrefixes
    systemInfo,          \* printSystemInformation: systemInfo
    platform,            \* process.platform
    osFailAt,            \* the OS field whose gathering threw, 0 if none did
    title,               \* printVariablesToScreen: argument title
    vars                 \* printVariablesToScreen: argument vars

allVars == <<pc, env, out, errOut, exitCode, error, singleVars, groupedVars,
             multipleVarPrefixes, systemInfo, platform, osFailAt, title, vars>>

-----------------------------------------------------------------------------
(* Bounds of the model. *)

\* largest number of environment variables of one environment (grouping)
MaxEnv == 5
\* largest number of environment variables of one environment (whole run)
MaxRunEnv == 3
\* longest key handed to printVariablesToScreen on its own
MaxPrintKeyLen == 5
\* longest sequence of pairs handed to printVariablesToScreen on its own
MaxVars == 2

-----------------------------------------------------------------------------
(* Strings. *)

SP == " "
NL == "\n"
US == "_"

\* the values of process.platform the model tells apart
Linux == <<"l", "i", "n", "u", "x">>
Win32 == <<"w", "i", "n", "3", "2">>

Max(a, b) == IF a >= b THEN a ELSE b

\* ' '.repeat(n)
Repeat(c, n) == [i \in 1..n |-> c]

\* String.prototype.padEnd(n) with the default pad string ' '
PadEndNone(s, n) == s
PadEnd(s, n) == IF Len(s) >= n THEN s ELSE s \o Repeat(SP, n - Len(s))

\* String.prototype.includes(c) for a one-character c
Includes(s, c) == \E i \in 1..Len(s) : s[i] = c

\* String.prototype.split(c) for a one-character separator c
RECURSIVE SplitFrom(_, _, _, _)
SplitFrom(s, c, i, cur) ==
    IF i > Len(s) THEN <<cur>>
    ELSE IF s[i] = c THEN <<cur>> \o SplitFrom(s, c, i + 1, <<>>)
    ELSE SplitFrom(s, c, i + 1, Append(cur, s[i]))

Split(s, c) == SplitFrom(s, c, 1, <<>>)

\* Number.prototype.toString() of a natural number, as in `${vars.length}`
Digit == <<"0", "1", "2", "3", "4", "5", "6", "7", "8", "9">>

RECURSIVE Decimal(_)
Decimal(n) ==
    IF n < 10 THEN <<Digit[n + 1]>>
    ELSE Decimal(n \div 10) \o <<Digit[(n % 10) + 1]>>

-----------------------------------------------------------------------------
(* The output sink (@actions/core). *)

startGroup(t) == [op |-> "startGroup", text |-> t]
info(line)    == [op |-> "info", text |-> line]
endGroup      == [op |-> "endGroup", text |-> <<>>]

Pair(k, v) == [key |-> k, value |-> v]

-----------------------------------------------------------------------------
(* printVariablesToScreen, lines 37-70. *)

RECURSIVE MaxKeyLengthFrom(_, _)
MaxKeyLengthFrom(vs, i) ==
    IF i > Len(vs) THEN 0
    ELSE Max(Len(vs[i].key), MaxKeyLengthFrom(vs, i + 1))

\* vars.reduce((max, { key }) => Math.max(max, key.length), 0)
MaxKeyLength(vs) == MaxKeyLengthFrom(vs, 1)

\* ' '.repeat(maxKeyLength + 3)
IndentKeyOnly(maxKeyLength) == Repeat(SP, maxKeyLength)
IndentShort(maxKeyLength) == Repeat(SP, maxKeyLength + 2)
Indent(maxKeyLength) == Repeat(SP, maxKeyLength + 3)

\* `${paddedKey} = ${firstLine}`
KeyRow(paddedKey, text) == paddedKey \o <<SP, "=", SP>> \o text

\* the body of vars.forEach: the rows of one pair
PairRows(p, maxKeyLength) ==
    LET paddedKey == PadEnd(p.key, maxKeyLength)
    IN  IF Includes(p.value, NL)
        THEN LET lines == Split(p.value, NL)
                 indent == Indent(maxKeyLength)
             IN  <<info(KeyRow(paddedKey, lines[1]))>>
                 \o [i \in 1..(Len(lines) - 1) |-> info(indent \o lines[i + 1])]
        ELSE <<info(KeyRow(paddedKey, p.value))>>

RECURSIVE AllRows(_, _, _)
AllRows(vs, i, maxKeyLength) ==
    IF i > Len(vs) THEN <<>>
    ELSE PairRows(vs[i], maxKeyLength) \o AllRows(vs, i + 1, maxKeyLength)

\* info(''); endGroup(), lines 68-69
SectionEndNoBlank == <<endGroup>>
SectionEnd == <<info(<<>>), endGroup>>

\* the events one call of printVariablesToScreen(title, vars) writes
printVariablesToScreenAlways(t, vs) ==
    <<startGroup(t)>> \o AllRows(vs, 1, MaxKeyLength(vs)) \o SectionEnd
printVariablesToScreen(t, vs) ==
    IF Len(vs) = 0 THEN <<>>
    ELSE <<startGroup(t)>>
         \o AllRows(vs, 1, MaxKeyLength(vs))
         \o SectionEnd

-----------------------------------------------------------------------------
(* Orders on strings. *)

\* the characters environment variable names are made of in this model
EnvChars == {"A", "a", US}

\* the UTF-16 code unit of a character
CodeUnit(c) == CASE c = "A" -> 65 [] c = US -> 95 [] c = "a" -> 97

\* the primary collation weight of a character in the host's collation
\* (punctuation before letters, a letter and its capital alike)
Primary(c) == CASE c = US -> 1 [] c = "a" -> 2 [] c = "A" -> 2

\* the tertiary (case) weight: a small letter before its capital
Tertiary(c) == CASE c = US -> 0 [] c = "a" -> 0 [] c = "A" -> 1

\* -1, 0 or 1 as the sequence of numbers x is before, equal to or after y
RECURSIVE CompareFrom(_, _, _)
CompareFrom(x, y, i) ==
    IF i > Len(x) /\ i > Len(y) THEN 0
    ELSE IF i > Len(x) THEN -1
    ELSE IF i > Len(y) THEN 1
    ELSE IF x[i] < y[i] THEN -1
    ELSE IF x[i] > y[i] THEN 1
    ELSE CompareFrom(x, y, i + 1)

\* the comparison Array.prototype.sort() makes without a comparator:
\* by UTF-16 code units
CodeUnitCompare(s, t) ==
    CompareFrom([i \in 1..Len(s) |-> CodeUnit(s[i])],
                [i \in 1..Len(t) |-> CodeUnit(t[i])], 1)

\* String.prototype.localeCompare: primary weights first, case second
localeCompare(s, t) ==
    LET p == CompareFrom([i \in 1..Len(s) |-> Primary(s[i])],
                         [i \in 1..Len(t) |-> Primary(t[i])], 1)
    IN  IF p # 0 THEN p
        ELSE CompareFrom([i \in 1..Len(s) |-> Tertiary(s[i])],
                         [i \in 1..Len(t) |-> Tertiary(t[i])], 1)

\* x put into the sorted sequence s of strings, after its equals (stable)
RECURSIVE InsertString(_, _)
InsertString(x, s) ==
    IF Len(s) = 0 THEN <<x>>
    ELSE IF CodeUnitCompare(x, Head(s)) < 0 THEN <<x>> \o s
    ELSE <<Head(s)>> \o InsertString(x, Tail(s))

\* Array.prototype.sort() of an array of strings
RECURSIVE SortStrings(_)
SortStrings(s) ==
    IF Len(s) = 0 THEN <<>>
    ELSE InsertString(s[Len(s)], SortStrings(SubSeq(s, 1, Len(s) - 1)))

\* (a, b) => a.key.localeCompare(b.key)
CompareByCodeUnit(a, b) == CodeUnitCompare(a.key, b.key)
CompareSingle(a, b) == localeCompare(a.key, b.key)

RECURSIVE InsertSingle(_, _)
InsertSingle(x, s) ==
    IF Len(s) = 0 THEN <<x>>
    ELSE IF CompareSingle(x, Head(s)) < 0 THEN <<x>> \o s
    ELSE <<Head(s)>> \o InsertSingle(x, Tail(s))

\* singleVars.sort((a, b) => a.key.localeCompare(b.key))
RECURSIVE SortSingle(_)
SortSingle(s) ==
    IF Len(s) = 0 THEN <<>>
    ELSE InsertSingle(s[Len(s)], SortSingle(SubSeq(s, 1, Len(s) - 1)))

-----------------------------------------------------------------------------
(* getAllEnvironmentVariables, lines 15-22.  process.env is a sequence of    *)
(* pairs with distinct keys, in the order Object.keys lists them.           *)

\* process.env[key]
Lookup(e, k) == (CHOOSE i \in 1..Len(e) : e[i].key = k)

\* process.env[key] || ''
ValueOrEmpty(v) == IF v = <<>> THEN <<>> ELSE v

\* Object.keys(process.env).sort()
SortKeysNot(keys) == keys
SortKeys(keys) == SortStrings(keys)

getAllEnvironmentVariables(e) ==
    LET keys == SortKeys([i \in 1..Len(e) |-> e[i].key])
    IN  [i \in 1..Len(keys) |->
            Pair(keys[i], ValueOrEmpty(e[Lookup(e, keys[i])].value))]

-----------------------------------------------------------------------------
(* printAllEnvironmentVariables, lines 75-122.  groupedVars, a Map, is the  *)
(* sequence of its entries in insertion order.                              *)

\* groupedVars.has(prefix)
Has(g, prefix) == \E i \in 1..Len(g) : g[i].prefix = prefix

\* groupedVars.get(prefix)
Get(g, prefix) == g[CHOOSE i \in 1..Len(g) : g[i].prefix = prefix].vars

\* groupedVars.get(prefix)!.push(p), after groupedVars.set(prefix, []) if new
PushGroupedOver(g, prefix, p) ==
    IF Has(g, prefix)
    THEN [i \in 1..Len(g) |->
             IF g[i].prefix = prefix
             THEN [g[i] EXCEPT !.vars = <<p>>]
             ELSE g[i]]
    ELSE Append(g, [prefix |-> prefix, vars |-> <<p>>])
PushGrouped(g, prefix, p) ==
    IF Has(g, prefix)
    THEN [i \in 1..Len(g) |->
             IF g[i].prefix = prefix
             THEN [g[i] EXCEPT !.vars = Append(g[i].vars, p)]
             ELSE g[i]]
    ELSE Append(g, [prefix |-> prefix, vars |-> <<p>>])

\* key.split('_')[0]
PrefixOf(key) == Split(key, US)[1]

\* the first forEach, lines 82-96, from variable i on
RECURSIVE Classify(_, _, _, _)
Classify(envVars, i, single, grouped) ==
    IF i > Len(envVars) THEN [single |-> single, grouped |-> grouped]
    ELSE IF ~Includes(envVars[i].key, US)
    THEN Classify(envVars, i + 1, Append(single, envVars[i]), grouped)
    ELSE Classify(envVars, i + 1, single,
                  PushGrouped(grouped, PrefixOf(envVars[i].key), envVars[i]))

\* vars.length > 1
IsMultipleFrom3(vs) == Len(vs) > 2
IsMultiple(vs) == Len(vs) > 1

\* the second forEach, lines 101-108, from entry i on
RECURSIVE Separate(_, _, _, _)
Separate(g, i, single, prefixes) ==
    IF i > Len(g) THEN [single |-> single, prefixes |-> prefixes]
    ELSE IF IsMultiple(g[i].vars)
    THEN Separate(g, i + 1, single, Append(prefixes, g[i].prefix))
    ELSE Separate(g, i + 1, single \o g[i].vars, prefixes)

\* multipleVarPrefixes.sort()
SortPrefixesNot(prefixes) == prefixes
SortPrefixes(prefixes) == SortStrings(prefixes)

VariablesText == <<SP, "V", "a", "r", "i", "a", "b", "l", "e", "s", SP, "(">>

\* ` Variables (${singleVars.length})`
SingleTitle(n) == <<SP>> \o Tail(VariablesText) \o Decimal(n) \o <<")">>

\* ` ${prefix} Variables (${vars.length})`
PrefixTitle(prefix, n) ==
    <<SP>> \o prefix \o VariablesText \o Decimal(n) \o <<")">>

\* the last forEach, lines 118-121
RECURSIVE PrintGroups(_, _, _)
PrintGroups(prefixes, g, i) ==
    IF i > Len(prefixes) THEN <<>>
    ELSE LET vs == Get(g, prefixes[i])
         IN  printVariablesToScreen(PrefixTitle(prefixes[i], Len(vs)), vs)
             \o PrintGroups(prefixes, g, i + 1)

\* the locals of printAllEnvironmentVariables when it returns, and the
\* events it has written
printAllEnvironmentVariables(e) ==
    LET envVars == getAllEnvironmentVariables(e)
        c == Classify(envVars, 1, <<>>, <<>>)
        s == Separate(c.grouped, 1, c.single, <<>>)
        prefixes == SortPrefixes(s.prefixes)
        single == SortSingle(s.single)
    IN  [singleVars |-> single,
         groupedVars |-> c.grouped,
         multipleVarPrefixes |-> prefixes,
         events |-> printVariablesToScreen(SingleTitle(Len(single)), single)
                    \o PrintGroups(prefixes, c.grouped, 1)]

-----------------------------------------------------------------------------
(* Environments. *)

\* names: a prefix of at most one letter, then nothing or '_' and at most
\* one more '_' ('A', 'A_', 'A__', '_', '__', ...)
EnvPrefixes == {<<>>, <<"A">>, <<"a">>}
EnvSuffixes == {<<>>, <<US>>}
EnvKeys ==
    (EnvPrefixes \ {<<>>})
        \cup {p \o <<US>> \o s : p \in EnvPrefixes, s \in EnvSuffixes}

\* the value of a variable in the environments of this model
EnvValueOf(k) ==
    IF ~Includes(k, "a") THEN <<"v">>
    ELSE IF Includes(k, US) THEN <<"v", NL>>
    ELSE <<"v", NL, "w">>

\* the parent process exports one more variable, while the environment has
\* fewer than n variables
SetEnv(n) ==
    /\ pc = "boot"
    /\ Len(env) < n
    /\ \E k \in EnvKeys :
          /\ \A i \in 1..Len(env) : env[i].key # k
          /\ env' = Append(env, Pair(k, EnvValueOf(k)))
    /\ UNCHANGED <<pc, out, errOut, exitCode, error, singleVars, groupedVars,
                   multipleVarPrefixes, systemInfo, platform, osFailAt, title,
                   vars>>

-----------------------------------------------------------------------------
(* printAllEnvironmentVariables applied to bounded environments. *)

InitEnv ==
    /\ pc = "boot"
    /\ env = <<>>
    /\ out = <<>>
    /\ errOut = <<>>
    /\ exitCode = -1
    /\ error = "none"
    /\ singleVars = <<>>
    /\ groupedVars = <<>>
    /\ multipleVarPrefixes = <<>>
    /\ systemInfo = <<>>
    /\ osFailAt = 0
    /\ platform = Linux
    /\ title = <<>>
    /\ vars = <<>>

EnvCall ==
    /\ pc = "boot"
    /\ LET r == printAllEnvironmentVariables(env)
       IN  /\ singleVars' = r.singleVars
           /\ groupedVars' = r.groupedVars
           /\ multipleVarPrefixes' = r.multipleVarPrefixes
           /\ out' = out \o r.events
    /\ pc' = "envDone"
    /\ UNCHANGED <<env, errOut, exitCode, error, systemInfo, platform, osFailAt,
                   title, vars>>

NextEnv == SetEnv(MaxEnv) \/ EnvCall

SpecEnv == InitEnv /\ [][NextEnv]_allVars

-----------------------------------------------------------------------------
(* printVariablesToScreen applied to bounded arguments. *)

PrintKeys == {Repeat("X", n) : n \in 1..MaxPrintKeyLen}

PrintValues ==
    { <<>>,
      <<"v">>,
      <<"v", NL, "w">>,
      <<"v", NL, SP, "w">>,
      <<"v", NL>>,
      <<"v", NL, NL, "w">> }

PrintTitles == { <<"T">> }

PrintPairs == {Pair(k, v) : k \in PrintKeys, v \in PrintValues}

PrintArgs == UNION {[1..n -> PrintPairs] : n \in 0..MaxVars}

InitPrint ==
    /\ pc = "print"
    /\ title \in PrintTitles
    /\ vars \in PrintArgs
    /\ env = <<>>
    /\ out = <<>>
    /\ errOut = <<>>
    /\ exitCode = -1
    /\ error = "none"
    /\ singleVars = <<>>
    /\ groupedVars = <<>>
    /\ multipleVarPrefixes = <<>>
    /\ systemInfo = <<>>
    /\ osFailAt = 0
    /\ platform = Linux

PrintCall ==
    /\ pc = "print"
    /\ out' = out \o printVariablesToScreen(title, vars)
    /\ pc' = "printed"
    /\ UNCHANGED <<env, errOut, exitCode, error, singleVars, groupedVars,
                   multipleVarPrefixes, systemInfo, platform, osFailAt, title,
                   vars>>

NextPrint == PrintCall

SpecPrint == InitPrint /\ [][NextPrint]_allVars

-----------------------------------------------------------------------------
(* Fixed texts. *)

RunnerInformationTitle ==
    <<"R", "u", "n", "n", "e", "r", SP, "I", "n", "f", "o", "r", "m", "a",
          "t", "i", "o", "n">>

SystemInformationTitleAgain ==
    RunnerInformationTitle
SystemInformationTitle ==
    <<"S", "y", "s", "t", "e", "m", SP, "I", "n", "f", "o", "r", "m", "a",
          "t", "i", "o", "n">>

NotAvailable == <<"N", "/", "A">>

UnknownError == <<"U", "n", "k", "n", "o", "w", "n", SP, "e", "r", "r", "o", "r">>

OsInfoErrorKey == <<"O", "S", SP, "I", "n", "f", "o", SP, "E", "r", "r", "o", "r">>

-----------------------------------------------------------------------------
(* printRunnerInformation, lines 127-136. *)

basicInfo(plat) ==
    << Pair(<<"N", "o", "d", "e", ".", "j", "s", SP, "v", "e", "r", "s", "i", "o",
            "n">>,
           <<"v", "2", "0">>),
      Pair(<<"P", "l", "a", "t", "f", "o", "r", "m">>,
           plat),
      Pair(<<"A", "r", "c", "h", "i", "t", "e", "c", "t", "u", "r", "e">>,
           <<"x", "6", "4">>),
      Pair(<<"W", "o", "r", "k", "i", "n", "g", SP, "D", "i", "r", "e", "c", "t",
            "o", "r", "y">>,
           <<"/", "w">>) >>

printRunnerInformation(plat) ==
    printVariablesToScreen(RunnerInformationTitle, basicInfo(plat))

-----------------------------------------------------------------------------
(* printSystemInformation, lines 138-175. *)

\* the literal of lines 141-152
processInfo(plat) ==
    << Pair(<<"P", "r", "o", "c", "e", "s", "s", SP, "I", "D">>,
           IF plat = Win32 THEN <<"4">> ELSE <<"7">>),
      Pair(<<"P", "a", "r", "e", "n", "t", SP, "P", "r", "o", "c", "e", "s", "s",
            SP, "I", "D">>,
           <<"1">>),
      Pair(<<"U", "s", "e", "r", SP, "I", "D">>,
           IF plat = Win32 THEN NotAvailable ELSE <<"0">>),
      Pair(<<"G", "r", "o", "u", "p", SP, "I", "D">>,
           IF plat = Win32 THEN NotAvailable ELSE <<"0">>),
      Pair(<<"M", "e", "m", "o", "r", "y", SP, "U", "s", "a", "g", "e">>,
           <<"{", NL, SP, SP, "\"", "r", "s", "s", "\"", ":", SP, "1", NL, "}">>),
      Pair(<<"C", "P", "U", SP, "U", "s", "a", "g", "e">>,
           <<"{", NL, SP, SP, "\"", "u", "s", "e", "r", "\"", ":", SP, "1", NL, "}">>),
      Pair(<<"U", "p", "t", "i", "m", "e">>,
           <<"1", SP, "s", "e", "c", "o", "n", "d", "s">>),
      Pair(<<"C", "o", "m", "m", "a", "n", "d", SP, "L", "i", "n", "e", SP, "A",
            "r", "g", "s">>,
           <<"[", "\"", "n", "o", "d", "e", "\"", "]">>),
      Pair(<<"N", "o", "d", "e", ".", "j", "s", SP, "E", "x", "e", "c", "u", "t",
            "a", "b", "l", "e", SP, "P", "a", "t", "h">>,
           <<"/", "n", "o", "d", "e">>),
      Pair(<<"N", "o", "d", "e", ".", "j", "s", SP, "E", "x", "e", "c", "u", "t",
            "e", SP, "A", "r", "g", "u", "m", "e", "n", "t", "s">>,
           <<"[", "]">>) >>

\* the arguments of systemInfo.push, lines 159-166, in the order they are
\* evaluated
osInfo ==
    << Pair(<<"O", "S", SP, "T", "y", "p", "e">>,
           <<"L", "i", "n", "u", "x">>),
      Pair(<<"O", "S", SP, "R", "e", "l", "e", "a", "s", "e">>,
           <<"6", ".", "1">>),
      Pair(<<"O", "S", SP, "H", "o", "s", "t", "n", "a", "m", "e">>,
           <<"h", "o", "s", "t">>),
      Pair(<<"O", "S", SP, "T", "o", "t", "a", "l", SP, "M", "e", "m", "o", "r",
            "y">>,
           <<"7", ".", "7", "5", SP, "G", "B">>),
      Pair(<<"O", "S", SP, "F", "r", "e", "e", SP, "M", "e", "m", "o", "r", "y">>,
           <<"3", ".", "2", "1", SP, "G", "B">>),
      Pair(<<"O", "S", SP, "L", "o", "a", "d", SP, "A", "v", "e", "r", "a", "g",
            "e">>,
           <<"[", "0", ",", "0", ",", "0", "]">>),
      Pair(<<"O", "S", SP, "C", "P", "U", SP, "C", "o", "u", "n", "t">>,
           <<"2">>),
      Pair(<<"O", "S", SP, "C", "P", "U", SP, "M", "o", "d", "e", "l">>,
           <<"c", "p", "u">>) >>

\* the messages an error thrown while the OS fields are gathered can have
ErrorTexts == {<<>>, <<"E">>}

\* systemInfo.push(...): the arguments are evaluated one after the other and
\* pushed together; if the one at place failAt throws, none is pushed
PushOsInfoPartly(sysInfo, failAt) ==
    IF failAt = 0 THEN sysInfo \o osInfo ELSE sysInfo \o SubSeq(osInfo, 1, failAt - 1)
PushOsInfo(sysInfo, failAt) ==
    IF failAt = 0 THEN sysInfo \o osInfo ELSE sysInfo

\* error?.toString() || 'Unknown error'
ErrorValue(text) == IF text = <<>> THEN UnknownError ELSE text

\* the catch clause, lines 168-170
CatchOsError(sysInfo, failAt, text) ==
    IF failAt = 0 THEN sysInfo
    ELSE Append(sysInfo, Pair(OsInfoErrorKey, ErrorValue(text)))

\* systemInfo as printed: failAt = 0 if no OS field throws, else the place of
\* the field that throws an error with the given text
gatherSystemInfo(plat, failAt, text) ==
    IF plat # Win32
    THEN CatchOsError(PushOsInfo(processInfo(plat), failAt), failAt, text)
    ELSE processInfo(plat)

-----------------------------------------------------------------------------
(* run, lines 180-198, and the end of the process. *)

Stages == {"runner", "env", "system"}

Init ==
    /\ pc = "boot"
    /\ platform \in {Linux, Win32}
    /\ env = <<>>
    /\ out = <<>>
    /\ errOut = <<>>
    /\ exitCode = -1
    /\ error = "none"
    /\ singleVars = <<>>
    /\ groupedVars = <<>>
    /\ multipleVarPrefixes = <<>>
    /\ systemInfo = <<>>
    /\ osFailAt = 0
    /\ title = <<>>
    /\ vars = <<>>

\* lines 183-185
RunnerStage ==
    /\ pc = "boot"
    /\ out' = out \o printRunnerInformation(platform) \o <<info(<<>>)>>
    /\ pc' = "runnerDone"
    /\ UNCHANGED <<env, errOut, exitCode, error, singleVars, groupedVars,
                   multipleVarPrefixes, systemInfo, platform, osFailAt, title,
                   vars>>

\* lines 188-190
EnvStage ==
    /\ pc = "runnerDone"
    /\ LET r == printAllEnvironmentVariables(env)
       IN  /\ singleVars' = r.singleVars
           /\ groupedVars' = r.groupedVars
           /\ multipleVarPrefixes' = r.multipleVarPrefixes
           /\ out' = out \o r.events \o <<info(<<>>)>>
    /\ pc' = "envDone"
    /\ UNCHANGED <<env, errOut, exitCode, error, systemInfo, platform, osFailAt,
                   title, vars>>

\* line 193
SystemStage ==
    /\ pc = "envDone"
    /\ \E failAt \in 0..Len(osInfo), text \in ErrorTexts :
          /\ failAt = 0 => text = <<>>
          /\ platform = Win32 => failAt = 0
          /\ osFailAt' = failAt
          /\ systemInfo' = gatherSystemInfo(platform, failAt, text)
    /\ out' = out \o printVariablesToScreen(SystemInformationTitle, systemInfo')
    /\ pc' = "returned"
    /\ UNCHANGED <<env, errOut, exitCode, error, singleVars, groupedVars,
                   multipleVarPrefixes, platform, title, vars>>

\* the stage that is about to run
NextStage ==
    CASE pc = "boot" -> "runner"
      [] pc = "runnerDone" -> "env"
      [] pc = "envDone" -> "system"
      [] OTHER -> "none"

\* a stage throws while it gathers what it prints; control goes to line 194
StageThrows ==
    /\ NextStage \in Stages
    /\ error' = NextStage
    /\ pc' = "caught"
    /\ UNCHANGED <<env, out, errOut, exitCode, singleVars, groupedVars,
                   multipleVarPrefixes, systemInfo, platform, osFailAt, title,
                   vars>>

\* process.exit(1)
ExitStatus == 1

\* lines 194-197
CatchNoExit ==
    /\ pc = "caught"
    /\ errOut' = Append(errOut, [prefix |-> "Error running action:", error |-> error])
    /\ exitCode' = 0
    /\ pc' = "exited"
    /\ UNCHANGED <<env, out, error, singleVars, groupedVars,
                   multipleVarPrefixes, systemInfo, platform, osFailAt, title,
                   vars>>
Catch ==
    /\ pc = "caught"
    /\ errOut' = Append(errOut, [prefix |-> "Error running action:", error |-> error])
    /\ exitCode' = ExitStatus
    /\ pc' = "exited"
    /\ UNCHANGED <<env, out, error, singleVars, groupedVars,
                   multipleVarPrefixes, systemInfo, platform, osFailAt, title,
                   vars>>

\* run() has returned and nothing is left to do: the process ends
Exit ==
    /\ pc = "returned"
    /\ exitCode' = 0
    /\ pc' = "exited"
    /\ UNCHANGED <<env, out, errOut, error, singleVars, groupedVars,
                   multipleVarPrefixes, systemInfo, platform, osFailAt, title,
                   vars>>

Next ==
    \/ SetEnv(MaxRunEnv)
    \/ RunnerStage
    \/ EnvStage
    \/ SystemStage
    \/ StageThrows
    \/ Catch
    \/ Exit

Spec == Init /\ [][Next]_allVars

-----------------------------------------------------------------------------
(* What the claims about the rendered environment speak of. *)

EnvDone == pc = "envDone"

\* the names of the environment
InputKeys == {env[i].key : i \in 1..Len(env)}

\* the prefixes a name of the environment can have
SomePrefixes == EnvPrefixes \cup {PrefixOf(k) : k \in InputKeys}

\* the names of the environment that contain '_' and have prefix p
WithPrefix(p) == {k \in InputKeys : Includes(k, US) /\ PrefixOf(k) = p}

\* the places of the sink where a section starts
Starts == {i \in 1..Len(out) : out[i].op = "startGroup"}

\* the rows that carry a key: no empty row, no row that starts with a space
KeyRows ==
    {i \in 1..Len(out) :
        /\ out[i].op = "info"
        /\ Len(out[i].text) > 0
        /\ out[i].text[1] # SP}

\* the key a key row carries: its text up to the first space
RowKey(i) ==
    LET t == out[i].text
        stop == CHOOSE j \in 1..Len(t) :
                    /\ t[j] = SP
                    /\ \A h \in 1..(j - 1) : t[h] # SP
    IN  SubSeq(t, 1, stop - 1)

\* the start of the section row i belongs to
StartOf(i) == CHOOSE s \in Starts : s < i /\ \A r \in Starts : r < i => r <= s

IsSingleTitle(t) == \E n \in 0..(MaxEnv + 1) : t = SingleTitle(n)
IsPrefixTitle(t, p) == \E n \in 0..(MaxEnv + 1) : t = PrefixTitle(p, n)

\* the key rows of the single-variables section, in the order of the sink
SingleRows == {i \in KeyRows : IsSingleTitle(out[StartOf(i)].text)}

\* the key rows of the named section of prefix p
PrefixRows(p) == {i \in KeyRows : IsPrefixTitle(out[StartOf(i)].text, p)}

\* the keys of a sequence of pairs
KeysOf(vs) == [i \in 1..Len(vs) |-> vs[i].key]

\* how often k occurs in a sequence of keys
Count(ks, k) == Cardinality({i \in 1..Len(ks) : ks[i] = k})

\* the keys of the named sections, one section after the other
RECURSIVE NamedKeys(_)
NamedKeys(i) ==
    IF i > Len(multipleVarPrefixes) THEN <<>>
    ELSE KeysOf(Get(groupedVars, multipleVarPrefixes[i])) \o NamedKeys(i + 1)

\* C1 (no loss, no duplication): once the environment is classified, the
\* keys of the single-variables bucket together with the keys of the named
\* sections are the input keys, each exactly once, and so are the key rows
\* written to the sink.
C1_NoLossNoDup ==
    EnvDone =>
        LET all == KeysOf(singleVars) \o NamedKeys(1)
        IN  /\ Len(all) = Len(env)
            /\ \A k \in InputKeys : Count(all, k) = 1
            /\ Cardinality(KeyRows) = Len(env)
            /\ \A k \in InputKeys :
                   Cardinality({i \in KeyRows : RowKey(i) = k}) = 1

\* C1 witness: five variables went to the single bucket and two named sections.
C1_Witness ==
    /\ EnvDone
    /\ Len(env) = 5
    /\ Len(singleVars) = 1
    /\ Len(multipleVarPrefixes) = 2
    /\ Cardinality(KeyRows) = 5

\* C2 (grouping threshold): a named section of prefix p is rendered exactly
\* when two or more names with '_' have prefix p; the only name of a prefix,
\* and every name without '_', is a row of the single-variables section.
C2_Threshold ==
    EnvDone =>
        /\ \A p \in SomePrefixes :
              /\ (\E s \in Starts : IsPrefixTitle(out[s].text, p))
                     <=> Cardinality(WithPrefix(p)) >= 2
              /\ Cardinality(WithPrefix(p)) = 1 =>
                     \A k \in WithPrefix(p) : \E i \in SingleRows : RowKey(i) = k
        /\ \A k \in InputKeys :
              ~Includes(k, US) => \E i \in SingleRows : RowKey(i) = k

\* C2 witness: 'A' stays single beside the named section of prefix 'A', and
\* 'a_', the only name of prefix 'a', is single too.
C2_Witness ==
    /\ EnvDone
    /\ InputKeys = {<<"A">>, <<"A", US>>, <<"A", US, US>>, <<"a", US>>}
    /\ \E i \in SingleRows : RowKey(i) = <<"A">>
    /\ \E i \in SingleRows : RowKey(i) = <<"a", US>>
    /\ Cardinality(PrefixRows(<<"A">>)) = 2

\* C3 as stated: the rows of the single-variables section are strictly
\* ascending by key in code-point order.
C3_CodePointSorted ==
    EnvDone =>
        \A i, j \in SingleRows :
            i < j => CodeUnitCompare(RowKey(i), RowKey(j)) < 0

\* C3 as amended: the rows of the single-variables section are strictly
\* ascending by key in the order of localeCompare, the host's collation.
C3_LocaleSorted ==
    EnvDone =>
        \A i, j \in SingleRows :
            i < j => localeCompare(RowKey(i), RowKey(j)) < 0

\* C3 witness: 'a' is rendered before 'A' in the single-variables section.
C3_Witness ==
    /\ EnvDone
    /\ \E i, j \in SingleRows :
          i < j /\ RowKey(i) = <<"a">> /\ RowKey(j) = <<"A">>

\* C4 (order of the sections): the single-variables section comes before
\* every named section, the named sections come in strictly ascending order
\* of their prefix, as Array.prototype.sort orders strings, and none twice.
C4_SectionOrder ==
    EnvDone =>
        \A s, t \in Starts :
            s < t =>
                /\ ~IsSingleTitle(out[t].text)
                /\ \A p, q \in SomePrefixes :
                       (IsPrefixTitle(out[s].text, p) /\ IsPrefixTitle(out[t].text, q))
                           => CodeUnitCompare(p, q) < 0

\* C4 witness: the single-variables section, then the sections of the
\* prefixes '' and 'A' in sorted order, the reverse of their order of entry.
C4_Witness ==
    /\ EnvDone
    /\ Cardinality(Starts) = 3
    /\ \E r, s, t \in Starts :
          /\ r < s /\ s < t
          /\ IsSingleTitle(out[r].text)
          /\ IsPrefixTitle(out[s].text, <<>>)
          /\ IsPrefixTitle(out[t].text, <<"A">>)
    /\ groupedVars[1].prefix = <<"A">>

-----------------------------------------------------------------------------
(* What the claims about the whole run speak of. *)

\* run() has gone through its three stages
Completed == pc \in {"returned", "exited"} /\ error = "none"

\* the places of the sink where a section of the given title starts
StartsOf(t) == {s \in Starts : out[s].text = t}

\* the key rows of the section that starts at s, in the order of the sink
RowsOfSection(s) ==
    LET stop == CHOOSE e \in (s + 1)..Len(out) :
                    /\ out[e].op = "endGroup"
                    /\ \A d \in (s + 1)..(e - 1) : out[d].op # "endGroup"
    IN  {i \in KeyRows : s < i /\ i < stop}

\* the n-th smallest of a set of places
RECURSIVE Nth(_, _)
Nth(S, n) ==
    LET least == CHOOSE i \in S : \A j \in S : i <= j
    IN  IF n = 1 THEN least ELSE Nth(S \ {least}, n - 1)

\* row i carries key k in a section whose longest key has m characters
Carries(i, k, m) ==
    /\ Len(out[i].text) >= m + 3
    /\ SubSeq(out[i].text, 1, m + 3)
           = k \o Repeat(SP, m - Len(k)) \o <<SP, "=", SP>>

\* the ten fields that do not come from the os module, in their order
NonOsKeys == KeysOf(processInfo(platform))

\* C8 (OS-error fallback): off Windows, if gathering an OS field throws, the
\* System Information section is still rendered with the ten non-OS fields in
\* their order, then one 'OS Info Error' row and no OS field, and the error
\* does not reach run()'s catch: nothing is reported and the exit status is 0.
C8_OsErrorFallback ==
    (pc \in {"returned", "exited"} /\ platform # Win32 /\ osFailAt > 0) =>
        LET expected == Append(NonOsKeys, OsInfoErrorKey)
            m == MaxKeyLength(processInfo(platform))
        IN  /\ KeysOf(systemInfo) = expected
            /\ Cardinality(StartsOf(SystemInformationTitle)) = 1
            /\ \A s \in StartsOf(SystemInformationTitle) :
                   /\ Cardinality(RowsOfSection(s)) = Len(expected)
                   /\ \A n \in 1..Len(expected) :
                          Carries(Nth(RowsOfSection(s), n), expected[n], m)
            /\ error = "none"
            /\ errOut = <<>>
            /\ pc = "exited" => exitCode = 0

\* C8 witness: the third OS field threw after two were gathered, and the
\* process ended with status 0.
C8_Witness ==
    /\ pc = "exited"
    /\ platform # Win32
    /\ osFailAt = 3
    /\ exitCode = 0
    /\ systemInfo[Len(systemInfo)].key = OsInfoErrorKey

\* C9 (top-level failure boundary): the process ends with status 0 exactly
\* when no stage threw; when a stage threw, the error is reported once with
\* the prefix 'Error running action:', the status is not 0, and no section of
\* that stage or of a later one is in the sink.
C9_FailureBoundary ==
    pc = "exited" =>
        /\ exitCode = 0 <=> error = "none"
        /\ error = "none" => errOut = <<>>
        /\ error # "none" =>
              /\ errOut = <<[prefix |-> "Error running action:", error |-> error]>>
              /\ exitCode # 0
              /\ StartsOf(SystemInformationTitle) = {}
              /\ error \in {"runner", "env"} =>
                     Starts \subseteq StartsOf(RunnerInformationTitle)
              /\ error = "runner" => out = <<>>

\* C9 witness: the environment stage threw after the runner section was
\* rendered, and the process ended with status 1.
C9_Witness ==
    /\ pc = "exited"
    /\ error = "env"
    /\ exitCode = 1
    /\ Cardinality(Starts) = 1
    /\ Len(env) > 0

\* the title of a section of environment variables
IsEnvTitle(t) == IsSingleTitle(t) \/ \E p \in SomePrefixes : IsPrefixTitle(t, p)

\* C10 (stage order): in a run that completes, the first section is 'Runner
\* Information', the last is 'System Information', each occurs once, and
\* every section between them is a section of environment variables.
C10_StageOrder ==
    Completed =>
        /\ Cardinality(StartsOf(RunnerInformationTitle)) = 1
        /\ Cardinality(StartsOf(SystemInformationTitle)) = 1
        /\ \A r \in StartsOf(RunnerInformationTitle) :
           \A y \in StartsOf(SystemInformationTitle) :
           \A s \in Starts \ {r, y} :
               /\ r < s
               /\ s < y
               /\ IsEnvTitle(out[s].text)

\* C10 witness: a completed run rendered the runner section, the single
\* bucket, a named section and the system section.
C10_Witness ==
    /\ Completed
    /\ Cardinality(Starts) = 4
    /\ Len(singleVars) = 1
    /\ Len(multipleVarPrefixes) = 1

-----------------------------------------------------------------------------
(* What the claims about one rendered section speak of. *)

\* the number of newline-separated lines of a value
NumLines(v) == 1 + Cardinality({i \in 1..Len(v) : v[i] = NL})

\* the width of a section: the length of its longest key
SectionWidth(vs) ==
    CHOOSE m \in 0..(MaxPrintKeyLen + 1) :
        /\ \A i \in 1..Len(vs) : Len(vs[i].key) <= m
        /\ \E i \in 1..Len(vs) : Len(vs[i].key) = m

RECURSIVE LinesBefore(_, _)
LinesBefore(vs, i) ==
    IF i <= 1 THEN 0 ELSE NumLines(vs[i - 1].value) + LinesBefore(vs, i - 1)

\* the place in the sink of the row that carries the key of pair i
KeyRowAt(vs, i) == 1 + LinesBefore(vs, i) + 1

\* a value up to its first newline
FirstLineOf(v) ==
    LET nls == {i \in 1..Len(v) : v[i] = NL}
    IN  IF nls = {} THEN v
        ELSE SubSeq(v, 1, (CHOOSE i \in nls : \A j \in nls : i <= j) - 1)

\* lines joined by newlines
RECURSIVE JoinLines(_)
JoinLines(ls) ==
    IF Len(ls) = 0 THEN <<>>
    ELSE IF Len(ls) = 1 THEN ls[1]
    ELSE ls[1] \o <<NL>> \o JoinLines(Tail(ls))

Printed == pc = "printed" /\ Len(vars) > 0

\* C5 (alignment): every row that carries a key is the key, spaces up to the
\* longest key of the section, then ' = ' and the first line of the value, so
\* that '=' stands at the 0-based column (longest key length) + 1 in every row.
C5_Alignment ==
    Printed =>
        LET m == SectionWidth(vars)
        IN  \A i \in 1..Len(vars) :
                LET at == KeyRowAt(vars, i)
                    k  == vars[i].key
                IN  /\ at <= Len(out)
                    /\ out[at].op = "info"
                    /\ Len(out[at].text) = m + 3 + Len(FirstLineOf(vars[i].value))
                    /\ SubSeq(out[at].text, 1, Len(k)) = k
                    /\ \A j \in (Len(k) + 1)..m : out[at].text[j] = SP
                    /\ out[at].text[m + 1] = SP
                    /\ out[at].text[m + 2] = "="
                    /\ out[at].text[m + 3] = SP
                    /\ SubSeq(out[at].text, m + 4, Len(out[at].text))
                           = FirstLineOf(vars[i].value)

\* C5 witness: a section of two keys of different lengths has been rendered.
C5_Witness ==
    /\ Printed
    /\ Len(vars) = 2
    /\ Len(vars[1].key) < Len(vars[2].key)
    /\ out[KeyRowAt(vars, 1)].text[Len(vars[2].key) + 2] = "="

\* the text of row n after pair i's key row, without its first w characters
RestOfRow(vs, i, n, w) ==
    LET t == out[KeyRowAt(vs, i) + n].text IN SubSeq(t, w + 1, Len(t))

\* C6 (multi-line values): a value of n lines gives n rows: its first line on
\* the key's row, each further line on a row of its own, in order, after
\* exactly (longest key length of the section) + 3 spaces and nothing else.
C6_MultiLine ==
    Printed =>
        LET m == SectionWidth(vars)
        IN  /\ Len(out) = 1 + LinesBefore(vars, Len(vars) + 1) + 2
            /\ \A i \in 1..Len(vars) :
                 LET n  == NumLines(vars[i].value)
                     at == KeyRowAt(vars, i)
                 IN  /\ \A r \in 1..(n - 1) :
                           /\ out[at + r].op = "info"
                           /\ Len(out[at + r].text) >= m + 3
                           /\ SubSeq(out[at + r].text, 1, m + 3) = Repeat(SP, m + 3)
                           /\ ~Includes(RestOfRow(vars, i, r, m + 3), NL)
                     /\ JoinLines([r \in 1..n |-> RestOfRow(vars, i, r - 1, m + 3)])
                           = vars[i].value

\* C6 witness: a three-line value under a key shorter than the longest key.
C6_Witness ==
    /\ Printed
    /\ Len(vars) = 2
    /\ Len(vars[1].key) < Len(vars[2].key)
    /\ NumLines(vars[1].value) = 3
    /\ out[KeyRowAt(vars, 1) + 2].text = Repeat(SP, Len(vars[2].key) + 3) \o <<"w">>

\* key 'X' with a two-line value in a section whose longest key has 5 characters
ExampleCase(i) ==
    /\ Printed
    /\ i \in 1..Len(vars)
    /\ vars[i].key = <<"X">>
    /\ SectionWidth(vars) = 5
    /\ NumLines(vars[i].value) = 2

\* the second line of a two-line value
SecondLineOf(v) == SubSeq(v, Len(FirstLineOf(v)) + 2, Len(v))

\* C7 as stated: the continuation row of the example is padded with 7 spaces.
C7_SevenSpaces ==
    \A i \in 1..MaxVars + 1 :
        ExampleCase(i) =>
            out[KeyRowAt(vars, i) + 1].text
                = Repeat(SP, 7) \o SecondLineOf(vars[i].value)

\* C7 as amended: the continuation row of the example is padded with 8 spaces
\* (5 + 3), the width of the padded key and ' = '.
C7_EightSpaces ==
    \A i \in 1..MaxVars + 1 :
        ExampleCase(i) =>
            out[KeyRowAt(vars, i) + 1].text
                = Repeat(SP, 8) \o SecondLineOf(vars[i].value)

\* C7 witness: the example has been rendered, its second line being ' w'.
C7_Witness ==
    \E i \in 1..Len(vars) :
        /\ ExampleCase(i)
        /\ vars[i].value = <<"v", NL, SP, "w">>

-----------------------------------------------------------------------------
(* What the claims about empty sections and the members of a named section *)
(* speak of.                                                               *)

\* the places of the sink where a region ends
Ends == {i \in 1..Len(out) : out[i].op = "endGroup"}

\* the empty rows of the sink
BlankRows == {i \in 1..Len(out) : out[i] = info(<<>>)}

\* the number of rows the values of the environment take
RECURSIVE EnvLines(_)
EnvLines(i) == IF i > Len(env) THEN 0 ELSE NumLines(env[i].value) + EnvLines(i + 1)

\* the number of sections a classified environment has to show
SectionsDue ==
    Cardinality({p \in SomePrefixes : Cardinality(WithPrefix(p)) >= 2})
        + (IF \E k \in InputKeys :
                  ~Includes(k, US) \/ Cardinality(WithPrefix(PrefixOf(k))) = 1
           THEN 1 ELSE 0)

\* C11 (empty section skip): a call with no pair writes nothing: when no
\* variable is single there is no ' Variables (0)' title, and the sink holds
\* one start, one blank row and one end for each section that has members,
\* the rows of the values and nothing else; an empty environment writes
\* nothing at all.
C11_EmptySkipped ==
    EnvDone =>
        /\ Len(singleVars) = 0 => \A s \in Starts : ~IsSingleTitle(out[s].text)
        /\ Cardinality(Starts) = SectionsDue
        /\ Cardinality(Ends) = SectionsDue
        /\ Cardinality(BlankRows) = SectionsDue
        /\ Len(out) = 3 * SectionsDue + EnvLines(1)
        /\ Len(env) = 0 => out = <<>>

\* C11 witness: four variables, all in two named sections, none single.
C11_Witness ==
    /\ EnvDone
    /\ Len(env) = 4
    /\ Len(singleVars) = 0
    /\ Len(multipleVarPrefixes) = 2
    /\ Cardinality(Starts) = 2

\* a name up to its first '_'
BeforeUnderscore(k) ==
    LET us == {i \in 1..Len(k) : k[i] = US}
    IN  SubSeq(k, 1, (CHOOSE i \in us : \A j \in us : i <= j) - 1)

\* C12 (inside a named section): the members of the section of prefix p are
\* rendered in strictly ascending order of their keys, as the collector
\* sorts them; each key contains '_' and has p before its first '_'; and the
\* count in the title is the number of members rendered.
C12_NamedSection ==
    EnvDone =>
        \A p \in SomePrefixes :
        \A s \in Starts :
            IsPrefixTitle(out[s].text, p) =>
                LET rows == RowsOfSection(s)
                IN  /\ \A i, j \in rows :
                           i < j => CodeUnitCompare(RowKey(i), RowKey(j)) < 0
                    /\ \A i \in rows :
                           /\ Includes(RowKey(i), US)
                           /\ BeforeUnderscore(RowKey(i)) = p
                    /\ out[s].text = PrefixTitle(p, Cardinality(rows))

\* C12 witness: 'A__' was exported before 'A_', and the section of prefix
\* 'A' shows 'A_' first, under a title that counts two members.
C12_Witness ==
    /\ EnvDone
    /\ \E i, j \in 1..Len(env) :
          i < j /\ env[i].key = <<"A", US, US>> /\ env[j].key = <<"A", US>>
    /\ \E s \in Starts :
          /\ out[s].text = PrefixTitle(<<"A">>, 2)
          /\ RowKey(s + 1) = <<"A", US>>
          /\ RowKey(s + 2) = <<"A", US, US>>

\* C13 (foldable regions): in a completed run starts and ends alternate,
\* each start before its end, so that regions are balanced and not nested;
\* every region holds a key row; and the row before each end is an empty
\* row that follows a row which is not empty.
C13_Regions ==
    Completed =>
        /\ Cardinality(Starts) = Cardinality(Ends)
        /\ \A s \in Starts :
              \E e \in Ends :
                  /\ s < e
                  /\ \A i \in (s + 1)..(e - 1) : out[i].op = "info"
                  /\ \E i \in KeyRows : s < i /\ i < e
                  /\ out[e - 1] = info(<<>>)
                  /\ out[e - 2] # info(<<>>)
        /\ \A e \in Ends :
              \E s \in Starts :
                  s < e /\ \A i \in (s + 1)..(e - 1) : out[i].op = "info"

\* C13 witness: a completed run whose named section ends with the second,
\* empty line of a value, a row of spaces, before the one empty row.
C13_Witness ==
    /\ Completed
    /\ pc = "exited"
    /\ Cardinality(Starts) = 4
    /\ \E e \in Ends :
          /\ out[e - 1] = info(<<>>)
          /\ Len(out[e - 2].text) > 0
          /\ \A i \in 1..Len(out[e - 2].text) : out[e - 2].text[i] = SP

====
